---- MODULE Spec2Model ----
(***************************************************************************)
(* Model of the client-side trajectory pipeline of mmtt-web:               *)
(*   frontend/src/App.jsx      cleanAndSortHistory, the localStorage       *)
(*                             cache, loadData (the refresh cycle) and the *)
(*                             user intents of App                         *)
(*   frontend/src/api/.js      parseTimestampCandidate,                    *)
(*                             fetchLatestLocation, fetchHistory           *)
(*                                                                         *)
(* JavaScript values are tagged records [t, v]; arrays are                 *)
(* [t |-> "array", items |-> <<...>>]; a point object is a record          *)
(* [lat, lon, ts] of tagged values.  Timestamps are epoch seconds,         *)
(* coordinates are millidegrees.                                           *)
(***************************************************************************)
EXTENDS Integers, Sequences, FiniteSets, TLC

VARIABLES
    \* ---- cleanAndSortHistory called on its own (SpecClean) ----
    rawHistory,     \* the argument `history`
    opts,           \* the argument `opts`
    nowSec,         \* Math.floor(Date.now() / 1000) read by the call
    sortEngine,     \* which Array.prototype.sort the host provides
    cleanPc,        \* "input" | "cleaned" | "recleaned" | "threw"
    cleaned,        \* the value returned by the first call
    recleaned       \* the value returned by calling it on `cleaned`

VARIABLES
    \* ---- App (Spec): React state, localStorage, refresh cycles ----
    deviceId,       \* useState('esp01')
    latestLocation, \* useState(null)
    history,        \* useState([])
    loading,        \* useState(false)
    error,          \* useState(null)
    autoRefresh,    \* useState(true)
    localStorage,   \* localStorage item track_history_<id>, per device id
    cycles,         \* the loadData calls awaiting Promise.all
    nextCycle,      \* number of the next loadData call that issues requests
    fixSource,      \* history variable: the device whose fix latestLocation holds
    historySource,  \* history variable: the device whose points history holds
    lastClear       \* history variable: the last clearLocalData not yet followed
                    \* by the end of a later loadData call, or NoClear

VARIABLES
    \* ---- one call of safeFetchJson (SpecFetch) ----
    fetchPc,        \* "idle" | "fetching" | "reading" | "returned" | "threw"
    fetchTimeout,   \* timeoutMs, in seconds
    fetchTimerArmed,\* the setTimeout of line 152 is pending
    fetchElapsed,   \* seconds since the call
    fetchResult     \* what the call received or returned

VARIABLES
    \* ---- SmoothMarker under App (SpecMarker) ----
    markerMounted,  \* latestLocation && <SmoothMarker ...>
    markerPosition, \* the prop position
    markerRef,      \* markerRef.current, which the Leaflet marker shows
    markerAnim,     \* the animation whose frame animRef.current names, or NoAnim
    markerFrames,   \* the animations whose step is scheduled for a frame
    markerDepth,    \* animations started from a point between two fixes
    markerInFlight, \* loadData calls awaiting their responses
    markerPrevFix   \* history variable: the fix shown before it was cleared

VARIABLES
    \* ---- the timestamp of a latest fix (SpecApi) ----
    apiCandidate,   \* data.timestamp of the response body
    apiHeader,      \* the Date header of the response
    apiClock,       \* Math.floor(Date.now() / 1000)
    apiPc,          \* "idle" | "input" | "parsed" | "returned"
    apiParsed,      \* the value of parseTimestampCandidate(candidate)
    apiFix          \* the promise of fetchLatestLocation

VARIABLES
    \* ---- backend (SpecBackend) ----
    latestByDevice, \* own properties of latestByDevice, NoEntry where none
    historyByDevice,\* own properties of historyByDevice, NoEntry where none
    backendReply,   \* the response to the last request
    backendAccepted \* history variable: device ids of the ingests answered ok

cleanVars == <<rawHistory, opts, nowSec, cleanPc, cleaned, recleaned>>

fetchVars == <<fetchPc, fetchTimeout, fetchTimerArmed, fetchElapsed, fetchResult>>

markerVars == <<markerMounted, markerPosition, markerRef, markerAnim, markerFrames,
                markerDepth, markerInFlight, markerPrevFix>>

apiVars == <<apiCandidate, apiHeader, apiClock, apiPc, apiParsed, apiFix>>

backendVars == <<latestByDevice, historyByDevice, backendReply, backendAccepted>>

appVars == <<deviceId, latestLocation, history, loading, error, autoRefresh,
             localStorage, cycles, nextCycle, fixSource, historySource, lastClear>>

vars == <<rawHistory, opts, nowSec, sortEngine, cleanPc, cleaned, recleaned,
          deviceId, latestLocation, history, loading, error, autoRefresh,
          localStorage, cycles, nextCycle, fixSource, historySource, lastClear,
          fetchPc, fetchTimeout, fetchTimerArmed, fetchElapsed, fetchResult,
          markerMounted, markerPosition, markerRef, markerAnim, markerFrames,
          markerDepth, markerInFlight, markerPrevFix,
          apiCandidate, apiHeader, apiClock, apiPc, apiParsed, apiFix,
          latestByDevice, historyByDevice, backendReply, backendAccepted>>

(***************************************************************************)
(* JavaScript values                                                       *)
(***************************************************************************)
JNull      == [t |-> "null", v |-> 0]
JUndefined == [t |-> "undefined", v |-> 0]
JNaN       == [t |-> "nan", v |-> 0]
JNum(n)    == [t |-> "number", v |-> n]
JNumStr(n) == [t |-> "numstr", v |-> n]   \* a string of decimal digits
JBadStr    == [t |-> "badstr", v |-> 0]   \* a string that is no number and no date
JArr(s)    == [t |-> "array", items |-> s]
JStr(s)    == [t |-> "string", v |-> s]
\* a number of at least 1e12, written in thousands: JKilo(k) is 1000 * k
JKilo(k)   == [t |-> "kilonum", v |-> k]
\* a string that Date.parse reads as the instant sec * 1000 ms
JDateStr(sec) == [t |-> "datestr", v |-> sec]
\* Infinity, as JSON.parse gives for 1e999
JInf       == [t |-> "infinity", v |-> 0]
\* the number n + 0.5
JFrac(n)   == [t |-> "fraction", v |-> n]
\* the string of the decimal digits of n followed by ".5"
JFracStr(n) == [t |-> "fracstr", v |-> n]

\* x == null
IsNullish(x) == x.t \in {"null", "undefined"}

\* Number(x)
ToNumber(x) ==
    CASE x.t = "number"    -> x
      [] x.t = "kilonum"   -> x
      [] x.t = "numstr"    -> JNum(x.v)
      [] x.t = "null"      -> JNum(0)
      [] x.t = "infinity"  -> x
      [] x.t = "fraction"  -> x
      [] x.t = "fracstr"   -> JFrac(x.v)
      [] OTHER             -> JNaN

\* Number.isFinite(x), for x a result of Number()
IsFiniteNum(x) == x.t \in {"number", "kilonum", "fraction"}

\* an element p of the array on which p.lat can be read
IsObject(p) == p.t = "object"

JPoint(lat, lon, ts) == [t |-> "object", lat |-> lat, lon |-> lon, ts |-> ts]

(***************************************************************************)
(* cleanAndSortHistory (App.jsx 81-147)                                    *)
(***************************************************************************)
MinYearDefault == 2009
JumpKmThresholdDefault == 200
MaxFutureSecDefault == 24 * 3600
DefaultOpts ==
    [minYear |-> MinYearDefault,
     jumpKmThreshold |-> JumpKmThresholdDefault,
     maxFutureSec |-> MaxFutureSecDefault]

\* p => ({lat: Number(p.lat), lon: Number(p.lon),
\*        ts: p.ts == null ? null : Number(p.ts)})
NormalizePoint(p) ==
    JPoint(ToNumber(p.lat), ToNumber(p.lon),
           IF IsNullish(p.ts) THEN JNull ELSE ToNumber(p.ts))

\* reading p.lat of a null or undefined element is a TypeError
CleanThrows(hist) ==
    /\ hist.t = "array"
    /\ \E i \in 1..Len(hist.items) : ~IsObject(hist.items[i])

MapNormalize(s) == [i \in 1..Len(s) |-> NormalizePoint(s[i])]

HasFiniteCoords(p) == IsFiniteNum(p.lat) /\ IsFiniteNum(p.lon)

\* ts < minYear * 365 * 24 * 3600, for an integer ts: the product (6.3e10
\* for minYear = 2009) is compared through the quotient, which is the same
\* test and stays within the range of the checker's integers.
SecondsPerYear == 365 * 24 * 3600
BelowMinYear(ts, minYear) == (ts \div SecondsPerYear) < minYear

\* the filter of lines 101-107; a NaN ts fails both comparisons, a ts of
\* 1e12 or more is above now + maxFutureSec
HasValidTs(p, o, now) ==
    IF p.ts.t = "null" THEN FALSE
    ELSE IF p.ts.t = "nan" THEN TRUE
    ELSE IF p.ts.t = "kilonum" THEN FALSE
    ELSE IF BelowMinYear(p.ts.v, o.minYear) THEN FALSE
    ELSE IF p.ts.v > now + o.maxFutureSec THEN FALSE
    ELSE TRUE

\* (a, b) => a.ts - b.ts; a NaN result counts as +0 in Array.prototype.sort
SortCompare(a, b) ==
    IF a.ts.t = "number" /\ b.ts.t = "number" THEN a.ts.v - b.ts.v ELSE 0

\* Array.prototype.sort, straight insertion: each element is moved left
\* past the elements it compares below.
RECURSIVE InsertLinear(_, _)
InsertLinear(s, p) ==
    IF s = <<>> \/ SortCompare(p, s[Len(s)]) >= 0
    THEN Append(s, p)
    ELSE Append(InsertLinear(SubSeq(s, 1, Len(s) - 1), p), s[Len(s)])

RECURSIVE SortLinear(_)
SortLinear(s) ==
    IF s = <<>> THEN <<>>
    ELSE InsertLinear(SortLinear(SubSeq(s, 1, Len(s) - 1)), s[Len(s)])

\* Array.prototype.sort as V8 runs it on an array shorter than 32 elements:
\* the leading run is counted (and reversed when strictly descending), the
\* remaining elements are placed by binary insertion.
RECURSIVE RunEnd(_, _, _)
RunEnd(a, idx, desc) ==
    IF idx > Len(a) THEN Len(a)
    ELSE LET order == SortCompare(a[idx], a[idx - 1])
         IN  IF (desc /\ order >= 0) \/ (~desc /\ order < 0)
             THEN idx - 1
             ELSE RunEnd(a, idx + 1, desc)

Reverse(s) == [i \in 1..Len(s) |-> s[Len(s) + 1 - i]]

RECURSIVE BinaryPosition(_, _, _, _)
BinaryPosition(a, pivot, left, right) ==
    IF left >= right THEN left
    ELSE LET mid == left + ((right - left) \div 2)
         IN  IF SortCompare(pivot, a[mid + 1]) < 0
             THEN BinaryPosition(a, pivot, left, mid)
             ELSE BinaryPosition(a, pivot, mid + 1, right)

RECURSIVE BinaryInsertionSort(_, _)
BinaryInsertionSort(a, start) ==
    IF start >= Len(a) THEN a
    ELSE LET pivot == a[start + 1]
             pos   == BinaryPosition(a, pivot, 0, start)
         IN  BinaryInsertionSort(
                 SubSeq(a, 1, pos) \o <<pivot>> \o SubSeq(a, pos + 1, start)
                     \o SubSeq(a, start + 2, Len(a)),
                 start + 1)

SortBinary(a) ==
    IF Len(a) < 2 THEN a
    ELSE LET desc == SortCompare(a[2], a[1]) < 0
             run  == RunEnd(a, 3, desc)
             made == IF desc
                     THEN Reverse(SubSeq(a, 1, run)) \o SubSeq(a, run + 1, Len(a))
                     ELSE a
         IN  BinaryInsertionSort(made, run)

SortEngines == {"binary", "linear"}

\* withValidTs.sort((a, b) => a.ts - b.ts)
SortByTs(s, engine) == IF engine = "binary" THEN SortBinary(s) ELSE SortLinear(s)

Abs(x) == IF x < 0 THEN -x ELSE x

\* earthKm, in whole metres, between two of the points (10, 10),
\* (10.001, 10.001), (10.002, 10.002) and (50, 50): the values the haversine
\* formula of lines 114-125 gives for them
DiagonalMetres(lat1, lat2) ==
    LET pair == {lat1, lat2}
    IN  CASE pair = {10000, 10001} -> 156
          [] pair = {10000, 10002} -> 312
          [] pair = {10001, 10002} -> 156
          [] pair = {10000, 50000} -> 5763650
          [] pair = {10001, 50000} -> 5763497
          [] pair = {10002, 50000} -> 5763345
          [] OTHER                 -> 0

\* earthKm, in metres.  Two points on one meridian (dLon = 0) have
\* a = sin^2(dLat / 2) and R * c = R * |dLat|:
\* 6371 km * pi / 180 = 111.195 km per degree, 111.195 m per millidegree.
\* The other points of the model are those of DiagonalMetres.
MetresPerDegree == 111195
EarthMetres(lat1, lon1, lat2, lon2) ==
    LET d == Abs(lat2 - lat1)
    IN  IF lon1 = lon2
        THEN (MetresPerDegree \div 1000) * d + ((MetresPerDegree % 1000) * d) \div 1000
        ELSE DiagonalMetres(lat1, lat2)

SpikeDtSec == 60

\* mutant of IsSpike: the elapsed-time test the wrong way round
IsSpikeDtReversed(prev, p, o) ==
    /\ EarthMetres(prev.lat.v, prev.lon.v, p.lat.v, p.lon.v) > o.jumpKmThreshold * 1000
    /\ prev.ts.t = "number" /\ p.ts.t = "number"
    /\ p.ts.v - prev.ts.v > SpikeDtSec

\* mutant of IsSpike: the distance alone decides
IsSpikeDistanceOnly(prev, p, o) ==
    EarthMetres(prev.lat.v, prev.lon.v, p.lat.v, p.lon.v) > o.jumpKmThreshold * 1000

\* km > jumpKmThreshold && dt < 60 (line 136); dt is NaN when either ts is
IsSpike(prev, p, o) ==
    /\ EarthMetres(prev.lat.v, prev.lon.v, p.lat.v, p.lon.v) > o.jumpKmThreshold * 1000
    /\ prev.ts.t = "number" /\ p.ts.t = "number"
    /\ p.ts.v - prev.ts.v < SpikeDtSec

\* mutant of SpikeLoop: each candidate is compared with the candidate before
\* it, accepted or not, instead of the last accepted point
RECURSIVE SpikeLoopPrevCandidate(_, _, _, _)
SpikeLoopPrevCandidate(w, i, acc, o) ==
    IF i > Len(w) THEN acc
    ELSE IF i = 1 THEN SpikeLoopPrevCandidate(w, i + 1, <<w[i]>>, o)
    ELSE IF IsSpike(w[i - 1], w[i], o) THEN SpikeLoopPrevCandidate(w, i + 1, acc, o)
    ELSE SpikeLoopPrevCandidate(w, i + 1, Append(acc, w[i]), o)

\* the loop of lines 127-143
RECURSIVE SpikeLoop(_, _, _, _)
SpikeLoop(w, i, acc, o) ==
    IF i > Len(w) THEN acc
    ELSE IF acc = <<>> THEN SpikeLoop(w, i + 1, <<w[i]>>, o)
    ELSE IF IsSpike(acc[Len(acc)], w[i], o) THEN SpikeLoop(w, i + 1, acc, o)
    ELSE SpikeLoop(w, i + 1, Append(acc, w[i]), o)

\* cleanAndSortHistory(history, opts), for a call that does not throw
cleanAndSortHistory(hist, o, now, engine) ==
    IF hist.t # "array" THEN <<>>
    ELSE LET normalized  == SelectSeq(MapNormalize(hist.items), HasFiniteCoords)
             ValidTs(p)  == HasValidTs(p, o, now)
             withValidTs == SelectSeq(normalized, ValidTs)
             sorted      == SortByTs(withValidTs, engine)
         IN  SpikeLoop(sorted, 1, <<>>, o)

(***************************************************************************)
(* api: parseTimestampCandidate, extractServerDateHeader,                  *)
(* fetchLatestLocation, fetchHistory (frontend/src/api/.js 148-408)        *)
(***************************************************************************)
Billion == 1000000000

\* parseTimestampCandidate(val): a string of digits only is converted by
\* Number() (line 190); any other string goes to Date.parse (208), which
\* gives NaN unless the string is a date
parseTimestampCandidate(val) ==
    LET num == IF val.t = "numstr" THEN JNum(val.v) ELSE val
    IN  CASE IsNullish(num)      -> JNull
          [] num.t = "kilonum"   -> IF num.v > Billion THEN JNum(num.v)   \* val > 1e12
                                    ELSE IF num.v >= Billion \div 1000 THEN num
                                    ELSE JNull
          [] num.t = "number"    -> IF num.v >= Billion THEN JNum(num.v)  \* val >= 1e9
                                    ELSE JNull
          [] num.t = "fraction"  -> IF num.v >= Billion THEN JNum(num.v)  \* Math.floor
                                    ELSE JNull
          [] num.t = "infinity"  -> num          \* Math.floor(Infinity / 1000)
          [] num.t = "nan"       -> JNull
          [] num.t = "datestr"   -> JNum(num.v)
          [] OTHER               -> JNull

\* extractServerDateHeader(res): the header is absent (null), a date or
\* a string that is no date
extractServerDateHeader(header) ==
    IF header.t = "datestr" THEN JNum(header.v) ELSE JNull

\* a ?? b
Coalesce(a, b) == IF IsNullish(a) THEN b ELSE a

\* what safeFetchJson and the server give one request:
\*   [kind |-> "ok", json, date]   a 2xx response with a JSON body
\*   [kind |-> "http", status]     a non-2xx response
\*   [kind |-> "error"]            fetch or res.json() rejects (network
\*                                 error, abort after the timeout, bad JSON)
OkResponse(json, date) == [kind |-> "ok", json |-> json, date |-> date]
HttpResponse(status)   == [kind |-> "http", status |-> status]
ErrorResponse          == [kind |-> "error"]

\* no response yet
NoResponse             == [kind |-> "none"]

\* timeoutMs of the two callers, in seconds (lines 259 and 342)
LatestTimeoutSec  == 12
HistoryTimeoutSec == 15

Pending          == [st |-> "pending"]
Fulfilled(value) == [st |-> "fulfilled", value |-> value]
Rejected         == [st |-> "rejected"]

\* fetchLatestLocation, had it taken the Date header before the payload
fetchLatestLocationHeaderFirst(resp, now) ==
    IF resp.kind = "error" THEN Rejected
    ELSE IF resp.kind = "http"
    THEN IF resp.status = 404 THEN Fulfilled(JNull) ELSE Rejected
    ELSE IF resp.json.t # "object" THEN Fulfilled(JNull)
    ELSE LET data      == resp.json
             candidate == Coalesce(data.timestamp, Coalesce(data.ts, JNull))
             fromHead  == extractServerDateHeader(resp.date)
             parsed    == IF fromHead.t = "null"
                          THEN parseTimestampCandidate(candidate) ELSE fromHead
             finalTs   == IF parsed.t = "null" THEN JNum(now) ELSE parsed
         IN  Fulfilled([data EXCEPT
                 !.lat = IF IsNullish(data.lat) THEN JNull ELSE ToNumber(data.lat),
                 !.lon = IF IsNullish(data.lon) THEN JNull ELSE ToNumber(data.lon),
                 !.timestamp = finalTs])

\* fetchLatestLocation(deviceId), for a non-empty deviceId, settled with
\* the response resp while the local clock reads now
fetchLatestLocation(resp, now) ==
    IF resp.kind = "error" THEN Rejected
    ELSE IF resp.kind = "http"
    THEN IF resp.status = 404 THEN Fulfilled(JNull) ELSE Rejected
    ELSE IF resp.json.t # "object" THEN Fulfilled(JNull)
    ELSE LET data      == resp.json
             candidate == Coalesce(data.timestamp, Coalesce(data.ts, JNull))
             parsed    == parseTimestampCandidate(candidate)
             fromHead  == IF parsed.t = "null"
                          THEN extractServerDateHeader(resp.date) ELSE parsed
             finalTs   == IF fromHead.t = "null" THEN JNum(now) ELSE fromHead
         IN  Fulfilled([data EXCEPT
                 !.lat = IF IsNullish(data.lat) THEN JNull ELSE ToNumber(data.lat),
                 !.lon = IF IsNullish(data.lon) THEN JNull ELSE ToNumber(data.lon),
                 !.timestamp = finalTs])

\* the map and filter of fetchHistory (367-395)
HistoryPoint(p) ==
    JPoint(IF IsNullish(p.lat) THEN JNaN ELSE ToNumber(p.lat),
           IF IsNullish(p.lon) THEN JNaN ELSE ToNumber(p.lon),
           parseTimestampCandidate(Coalesce(p.ts, Coalesce(p.timestamp, JNull))))

NotNaNCoords(p) == p.lat.t # "nan" /\ p.lon.t # "nan"

\* fetchHistory(deviceId), for a non-empty deviceId: every failure is
\* caught and gives [].  `failed` records that the request failed; the
\* caller receives the array only.
fetchHistory(resp) ==
    IF resp.kind # "ok" THEN [st |-> "fulfilled", value |-> JArr(<<>>), failed |-> TRUE]
    ELSE LET data == resp.json
             arr  == IF data.t = "array" THEN data.items
                     ELSE IF data.t = "object" /\ data.coordinates.t = "array"
                          THEN data.coordinates.items
                     ELSE <<>>
         IN  IF \E i \in 1..Len(arr) : ~IsObject(arr[i])
             THEN [st |-> "fulfilled", value |-> JArr(<<>>), failed |-> FALSE]
             ELSE [st |-> "fulfilled",
                   value |-> JArr(SelectSeq([i \in 1..Len(arr) |-> HistoryPoint(arr[i])],
                                            NotNaNCoords)),
                   failed |-> FALSE]

(***************************************************************************)
(* localStorage cache (App.jsx 45-72)                                      *)
(***************************************************************************)
Absent      == [t |-> "absent"]           \* getItem gives null
Corrupt     == [t |-> "corrupt"]          \* JSON.parse throws on the item
Json(value) == [t |-> "json", value |-> value]

\* JSON.parse(JSON.stringify(p)) of a point: NaN is written as null
JsonPoint(p) == JPoint(p.lat, p.lon, IF p.ts.t = "nan" THEN JNull ELSE p.ts)

\* the item written by saveLocalHistory(deviceId, arr)
Stringified(arr) == Json(JArr([i \in 1..Len(arr) |-> JsonPoint(arr[i])]))

\* loadLocalHistory, had it returned whatever JSON.parse gave
loadLocalHistoryAnyJson(store, dev) ==
    IF dev = "" THEN <<>>
    ELSE IF store[dev].t # "json" THEN <<>>
    ELSE IF store[dev].value.t # "array" THEN <<store[dev].value>>
    ELSE store[dev].value.items

\* loadLocalHistory(deviceId): the stored array, or []
loadLocalHistory(store, dev) ==
    IF dev = "" THEN <<>>
    ELSE IF store[dev].t # "json" THEN <<>>
    ELSE IF store[dev].value.t # "array" THEN <<>>
    ELSE store[dev].value.items

(***************************************************************************)
(* backend (backend/index.js): the in-memory stores and the replies        *)
(***************************************************************************)
\* latestByDevice[id] or historyByDevice[id] was never assigned
NoEntry == [t |-> "undefined", v |-> 0]

\* the value a plain object gives for a key of Object.prototype that was
\* never assigned: a function
Inherited == [t |-> "function", v |-> 0]

\* no request was answered yet
NoReply == [status |-> 0, body |-> JNull]

(***************************************************************************)
(* SmoothMarker (App.jsx 199-255): positions and animations                *)
(***************************************************************************)
NoPosition == [lat |-> -1, lon |-> -1]
NoAnim     == [from |-> NoPosition, to |-> NoPosition, q |-> 0]

(***************************************************************************)
(* App (App.jsx 259-411, 513-536): the refresh cycle and the user intents  *)
(***************************************************************************)
MaxCycles == 2

\* "" stands for every input whose trim() is empty
DeviceIds == {"esp01", "esp02", ""}

Lon0 == JNum(77000)

NowValues == {1793000000}

\* bodies of GET /device/:id/latest
LatestBody(dev, lat, ts) ==
    [t |-> "object", device_id |-> dev, lat |-> lat, lon |-> Lon0,
     speed |-> JNull, battery |-> JNum(80), sos |-> FALSE,
     timestamp |-> ts, ts |-> JUndefined]

LatestResponses(dev) ==
    { OkResponse(LatestBody(JStr(dev), JNum(10000), JNum(1792999990)), JDateStr(1793000001)),
      OkResponse(LatestBody(JUndefined, JNumStr(11000), JNum(42)), JNull),
      OkResponse(JNull, JNull),
      HttpResponse(404),
      HttpResponse(500),
      ErrorResponse }

\* bodies of GET /device/:id/history
ServerPoint(lat, ts) ==
    [t |-> "object", lat |-> lat, lon |-> Lon0, ts |-> JUndefined, timestamp |-> ts]

HistoryResponses(dev) ==
    { OkResponse([t |-> "object", coordinates |-> JArr(<<>>)], JNull),
      OkResponse([t |-> "object", coordinates |->
                     JArr(<<ServerPoint(JNum(10000), JNum(1792999990))>>)], JNull),
      HttpResponse(500),
      ErrorResponse }

\* what localStorage may hold for a device when the page is opened
InitialStored ==
    { Absent,
      Corrupt,
      Json(JNum(7)),
      Json(JArr(<<JPoint(JNum(10000), Lon0, JNum(1792999000))>>)),
      Json(JArr(<<JPoint(JNum(10000), Lon0, JBadStr)>>)),
      Json(JArr(<<JNull>>)) }

\* the item of the device shown first is any of these, the other device has
\* no item yet
InitialStores ==
    { f \in [DeviceIds -> InitialStored] : f[""] = Absent /\ f["esp02"] = Absent }

NoSource == "none"

\* no clearLocalData since the last loadData call that was started after one
\* ended; otherwise the device whose entry was removed and the numbers of
\* the calls that were in flight at that moment
NoClear == [dev |-> NoSource, ids |-> {}]

NoError == JNull
PleaseEnter == JStr("Please enter a device ID")
\* `Failed to load data: ${err?.message ?? err}`: every message of the catch block
FailedToLoad == JStr("Failed to load data")

\* the lines of loadData up to the await (277-293), run by the initial load
\* effect as the page opens
InitApp ==
    /\ deviceId = "esp01"
    /\ latestLocation = JNull
    /\ history = <<>>
    /\ loading = TRUE
    /\ error = NoError
    /\ autoRefresh = TRUE
    /\ localStorage \in InitialStores
    /\ cycles = { [id |-> 1, dev |-> "esp01", latest |-> Pending, hist |-> Pending] }
    /\ nextCycle = 2
    /\ fixSource = NoSource
    /\ historySource = NoSource
    /\ lastClear = NoClear

IdleClean ==
    /\ rawHistory = JArr(<<>>)
    /\ opts = DefaultOpts
    /\ nowSec \in NowValues
    /\ cleanPc = "idle"
    /\ cleaned = <<>>
    /\ recleaned = <<>>

\* no call of safeFetchJson is followed on its own
IdleFetch ==
    /\ fetchPc = "idle"
    /\ fetchTimeout = HistoryTimeoutSec
    /\ fetchTimerArmed = FALSE
    /\ fetchElapsed = 0
    /\ fetchResult = NoResponse

\* the marker is not followed
IdleMarker ==
    /\ markerMounted = FALSE
    /\ markerPosition = NoPosition
    /\ markerRef = NoPosition
    /\ markerAnim = NoAnim
    /\ markerFrames = {}
    /\ markerDepth = 0
    /\ markerInFlight = 0
    /\ markerPrevFix = NoPosition

\* no timestamp is followed on its own
IdleApi ==
    /\ apiCandidate = JNull
    /\ apiHeader = JNull
    /\ apiClock = 0
    /\ apiPc = "idle"
    /\ apiParsed = JNull
    /\ apiFix = Pending

\* the backend is not followed
IdleBackend ==
    /\ latestByDevice = <<>>
    /\ historyByDevice = <<>>
    /\ backendReply = NoReply
    /\ backendAccepted = {}

Init ==
    /\ InitApp
    /\ IdleClean
    /\ sortEngine \in SortEngines
    /\ IdleFetch
    /\ IdleMarker
    /\ IdleApi
    /\ IdleBackend

\* Promise.all is rejected as soon as fetchLatestLocation rejects, and is
\* fulfilled when both promises are
Settled(c) ==
    \/ c.latest = Rejected
    \/ c.latest # Pending /\ c.hist # Pending

\* The continuation of an await runs in the microtasks that follow the
\* settling of its promise: no timer callback and no input event comes between.
NoContinuationDue == \A c \in cycles : ~Settled(c)

\* loadData without the setError(null) of line 286
loadDataKeepsError ==
    IF deviceId = ""
    THEN /\ error' = PleaseEnter
         /\ UNCHANGED <<deviceId, latestLocation, history, loading, autoRefresh,
                        localStorage, cycles, nextCycle, fixSource, historySource, lastClear>>
    ELSE /\ nextCycle <= MaxCycles
         /\ latestLocation' = JNull
         /\ history' = <<>>
         /\ UNCHANGED error
         /\ loading' = TRUE
         /\ cycles' = cycles \cup
                { [id |-> nextCycle, dev |-> deviceId, latest |-> Pending, hist |-> Pending] }
         /\ nextCycle' = nextCycle + 1
         /\ fixSource' = NoSource
         /\ historySource' = NoSource
         /\ UNCHANGED <<deviceId, autoRefresh, localStorage, lastClear>>

\* loadData (277-293): the guard, the clearing and the two requests
loadData ==
    IF deviceId = ""
    THEN /\ error' = PleaseEnter
         /\ UNCHANGED <<deviceId, latestLocation, history, loading, autoRefresh,
                        localStorage, cycles, nextCycle, fixSource, historySource, lastClear>>
    ELSE /\ nextCycle <= MaxCycles
         /\ latestLocation' = JNull
         /\ history' = <<>>
         /\ error' = NoError
         /\ loading' = TRUE
         /\ cycles' = cycles \cup
                { [id |-> nextCycle, dev |-> deviceId, latest |-> Pending, hist |-> Pending] }
         /\ nextCycle' = nextCycle + 1
         /\ fixSource' = NoSource
         /\ historySource' = NoSource
         /\ UNCHANGED <<deviceId, autoRefresh, localStorage, lastClear>>

\* the Sync now and Refresh buttons (471, 526): onClick={loadData} disabled={loading}
ManualRefresh ==
    /\ NoContinuationDue
    /\ ~loading
    /\ loadData
    /\ UNCHANGED <<cleanVars, sortEngine,
                   fetchVars, markerVars, apiVars, backendVars>>

\* the interval callback, had the effect not returned early at line 403
TimerTickUnguarded ==
    /\ NoContinuationDue
    /\ loadData
    /\ UNCHANGED <<cleanVars, sortEngine,
                   fetchVars, markerVars, apiVars, backendVars>>

\* the auto-refresh interval (402-411)
TimerTick ==
    /\ NoContinuationDue
    /\ autoRefresh
    /\ loadData
    /\ UNCHANGED <<cleanVars, sortEngine,
                   fetchVars, markerVars, apiVars, backendVars>>

\* the auto-refresh checkbox (542)
ToggleAutoRefresh ==
    /\ NoContinuationDue
    /\ autoRefresh' = ~autoRefresh
    /\ UNCHANGED <<deviceId, latestLocation, history, loading, error,
                   localStorage, cycles, nextCycle, fixSource, historySource, lastClear,
                   cleanVars, sortEngine,
                   fetchVars, markerVars, apiVars, backendVars>>

\* the device input (517-522)
ChangeDevice ==
    \E d \in DeviceIds \ {deviceId} :
        /\ NoContinuationDue
        /\ deviceId' = d
        /\ latestLocation' = JNull
        /\ history' = <<>>
        /\ fixSource' = NoSource
        /\ historySource' = NoSource
        /\ UNCHANGED <<loading, error, autoRefresh, localStorage, cycles, nextCycle,
                       lastClear, cleanVars, sortEngine,
                   fetchVars, markerVars, apiVars, backendVars>>

\* clearLocalData, had it removed the entries of all devices
clearLocalDataAllDevices ==
    /\ NoContinuationDue
    /\ ~(loading /\ latestLocation = JNull /\ history = <<>>)
    /\ latestLocation' = JNull
    /\ history' = <<>>
    /\ error' = NoError
    /\ localStorage' = [d \in DeviceIds |-> Absent]
    /\ fixSource' = NoSource
    /\ historySource' = NoSource
    /\ lastClear' = [dev |-> deviceId, ids |-> {c.id : c \in cycles}]
    /\ UNCHANGED <<deviceId, loading, autoRefresh, cycles, nextCycle,
                   cleanVars, sortEngine,
                   fetchVars, markerVars, apiVars, backendVars>>

\* clearLocalData (365-387), behind the Clear data button (529-536)
clearLocalData ==
    /\ NoContinuationDue
    /\ ~(loading /\ latestLocation = JNull /\ history = <<>>)
    /\ latestLocation' = JNull
    /\ history' = <<>>
    /\ error' = NoError
    /\ localStorage' = [localStorage EXCEPT ![deviceId] = Absent]
    /\ fixSource' = NoSource
    /\ historySource' = NoSource
    /\ lastClear' = [dev |-> deviceId, ids |-> {c.id : c \in cycles}]
    /\ UNCHANGED <<deviceId, loading, autoRefresh, cycles, nextCycle,
                   cleanVars, sortEngine,
                   fetchVars, markerVars, apiVars, backendVars>>

\* the promise of fetchLatestLocation(deviceId) settles
LatestSettles ==
    \E c \in cycles : \E resp \in LatestResponses(c.dev) : \E now \in NowValues :
        /\ NoContinuationDue
        /\ c.latest = Pending
        /\ cycles' = (cycles \ {c}) \cup {[c EXCEPT !.latest = fetchLatestLocation(resp, now)]}
        /\ UNCHANGED <<deviceId, latestLocation, history, loading, error, autoRefresh,
                       localStorage, nextCycle, fixSource, historySource, lastClear,
                       cleanVars, sortEngine,
                   fetchVars, markerVars, apiVars, backendVars>>

\* the promise of fetchHistory(deviceId) settles
HistorySettles ==
    \E c \in cycles : \E resp \in HistoryResponses(c.dev) :
        /\ NoContinuationDue
        /\ c.hist = Pending
        /\ cycles' = (cycles \ {c}) \cup {[c EXCEPT !.hist = fetchHistory(resp)]}
        /\ UNCHANGED <<deviceId, latestLocation, history, loading, error, autoRefresh,
                       localStorage, nextCycle, fixSource, historySource, lastClear,
                       cleanVars, sortEngine,
                   fetchVars, markerVars, apiVars, backendVars>>

\* lines 297-305
NormalizedLatest(latest, dev, now) ==
    [t |-> "object",
     device_id |-> Coalesce(latest.device_id, JStr(dev)),
     lat |-> ToNumber(latest.lat),
     lon |-> ToNumber(latest.lon),
     speed |-> IF IsNullish(latest.speed) THEN JNull ELSE ToNumber(latest.speed),
     battery |-> IF IsNullish(latest.battery) THEN JNull ELSE ToNumber(latest.battery),
     sos |-> latest.sos,
     timestamp |-> Coalesce(latest.timestamp, JNum(now))]

\* lines 314-318
LoadDataPoint(p) ==
    JPoint(IF IsNullish(p.lat) THEN JNaN ELSE ToNumber(p.lat),
           IF IsNullish(p.lon) THEN JNaN ELSE ToNumber(p.lon),
           Coalesce(p.ts, JNull))

\* lines 312-328: the history of the server, or else of localStorage
NormalizedHistory(historyData, store, dev) ==
    IF Len(historyData.items) > 0
    THEN JArr([i \in 1..Len(historyData.items) |-> LoadDataPoint(historyData.items[i])])
    ELSE JArr(loadLocalHistory(store, dev))

\* lines 338-347, had timestamp not been taken from the point
LastAsLatestNoTs(last, dev) ==
    [t |-> "object", device_id |-> JStr(dev), lat |-> last.lat, lon |-> last.lon,
     speed |-> JNull, battery |-> JNull, sos |-> FALSE, timestamp |-> JNull]

\* lines 338-347
LastAsLatest(last, dev) ==
    [t |-> "object", device_id |-> JStr(dev), lat |-> last.lat, lon |-> last.lon,
     speed |-> JNull, battery |-> JNull, sos |-> FALSE, timestamp |-> last.ts]

\* the catch block, had it left the displayed trajectory as it was
CatchBlockKeepsTrajectory(c) ==
    /\ error' = FailedToLoad
    /\ latestLocation' = JNull
    /\ fixSource' = NoSource
    /\ loading' = FALSE
    /\ UNCHANGED <<history, historySource, localStorage>>

\* the catch block (353-358) followed by finally
CatchBlock(c) ==
    /\ error' = FailedToLoad
    /\ latestLocation' = JNull
    /\ history' = <<>>
    /\ loading' = FALSE
    /\ fixSource' = NoSource
    /\ historySource' = NoSource
    /\ UNCHANGED localStorage

\* saveLocalHistory without its try/catch: a failing setItem throws
saveLocalHistoryUncaught(quotaOk) == ~quotaOk

\* saveLocalHistory (49-57) throws to its caller: never, the catch of
\* line 54 takes what setItem throws
saveLocalHistoryThrows(quotaOk) == FALSE

\* line 334, had the entry been written after every clean
ShouldSaveAlways(cleanedNow) == TRUE

\* line 334: the entry is written only for a non-empty trajectory
ShouldSave(cleanedNow) == Len(cleanedNow) > 0

\* the try block after the await (295-352) followed by finally
TryBlock(c, now, quotaOk) ==
    LET latest  == c.latest.value
        normHis == NormalizedHistory(c.hist.value, localStorage, c.dev)
        cleanedNow == cleanAndSortHistory(normHis, DefaultOpts, now, sortEngine)
    IN  IF \/ CleanThrows(normHis)
           \/ ShouldSave(cleanedNow) /\ saveLocalHistoryThrows(quotaOk)
        THEN CatchBlock(c)
        ELSE /\ localStorage' =
                    IF ShouldSave(cleanedNow) /\ quotaOk
                    THEN [localStorage EXCEPT ![c.dev] = Stringified(cleanedNow)]
                    ELSE localStorage
             /\ latestLocation' =
                    IF latest.t = "object" THEN NormalizedLatest(latest, c.dev, now)
                    ELSE IF Len(cleanedNow) > 0
                    THEN LastAsLatest(cleanedNow[Len(cleanedNow)], c.dev)
                    ELSE JNull
             /\ fixSource' = IF latestLocation' = JNull THEN NoSource ELSE c.dev
             /\ history' = cleanedNow
             /\ historySource' = IF cleanedNow = <<>> THEN NoSource ELSE c.dev
             /\ loading' = FALSE
             /\ UNCHANGED error

\* the continuation of loadData after await Promise.all (290-361)
CycleCompletes ==
    \E c \in cycles : \E now \in NowValues : \E quotaOk \in BOOLEAN :
        /\ Settled(c)
        /\ IF c.latest = Rejected THEN CatchBlock(c) ELSE TryBlock(c, now, quotaOk)
        /\ cycles' = cycles \ {c}
        /\ lastClear' = IF c.id \in lastClear.ids THEN lastClear ELSE NoClear
        /\ UNCHANGED <<deviceId, autoRefresh, nextCycle, cleanVars, sortEngine,
                   fetchVars, markerVars, apiVars, backendVars>>

Next ==
    \/ ManualRefresh
    \/ TimerTick
    \/ ToggleAutoRefresh
    \/ ChangeDevice
    \/ clearLocalData
    \/ LatestSettles
    \/ HistorySettles
    \/ CycleCompletes

Spec == Init /\ [][Next]_vars

(***************************************************************************)
(* Claims about the refresh cycle (checked under Spec)                     *)
(***************************************************************************)
\* the loadData call c ends in this step
Completes(c) == \A d \in cycles' : d.id # c.id

\* ... and ends in the try block, which nothing throws in
ReachesReady(c) ==
    /\ Completes(c)
    /\ c.latest # Rejected
    /\ ~CleanThrows(NormalizedHistory(c.hist.value, localStorage, c.dev))

\* C1: displayed data was never fetched for another device than the active
\* one: the results of a cycle whose device was changed while it was in
\* flight are not applied.
C1_NoStaleDeviceData ==
    /\ latestLocation # JNull => fixSource = deviceId
    /\ history # <<>> => historySource = deviceId

\* C2: whenever the error of a failed cycle is shown, the displayed fix is
\* null and the displayed trajectory is empty.
C2_FailedShowsNoData ==
    error = FailedToLoad => latestLocation = JNull /\ history = <<>>

\* C3: a cycle one of whose two requests failed at transport level ends in
\* Failed, with the error description set.
C3_TransportFailureFails ==
    [][ \A c \in cycles :
            ( /\ Completes(c)
              /\ \/ c.latest = Rejected
                 \/ c.hist # Pending /\ c.hist.failed )
            => error' = FailedToLoad ]_vars

\* a non-empty array of points as saveLocalHistory writes them: numeric
\* coordinates, a numeric or null ts
SavedTrajectory(items) ==
    /\ items # <<>>
    /\ \A i \in 1..Len(items) :
           /\ IsObject(items[i])
           /\ items[i].lat.t = "number" /\ items[i].lon.t = "number"
           /\ items[i].ts.t \in {"number", "null"}

\* C4: a cycle whose history request succeeds with an empty sequence while
\* the cache holds a trajectory for its device ends with that trajectory
\* displayed.
C4_EmptyHistoryShowsCache ==
    [][ \A c \in cycles :
            ( /\ Completes(c)
              /\ c.latest # Rejected
              /\ c.hist # Pending /\ ~c.hist.failed
              /\ c.hist.value.items = <<>>
              /\ SavedTrajectory(loadLocalHistory(localStorage, c.dev)) )
            => /\ history' # <<>>
               /\ history' = loadLocalHistory(localStorage, c.dev) ]_vars

\* the array that reading the item of a device back gives
ReadBack(store, dev) ==
    IF store[dev].t = "json" /\ store[dev].value.t = "array"
    THEN store[dev].value.items ELSE <<>>

\* a trajectory as JSON text holds it: a NaN ts reads back as null
AsJson(traj) ==
    [i \in 1..Len(traj) |->
        [traj[i] EXCEPT !.ts = IF traj[i].ts.t = "nan" THEN JNull ELSE traj[i].ts]]

\* C5 as stated: after every cycle that reaches Ready the cache entry of
\* its device holds the trajectory the cycle committed.
C5_CacheEqualsCommitted ==
    [][ \A c \in cycles :
            ReachesReady(c) => ReadBack(localStorage', c.dev) = AsJson(history') ]_vars

\* C5 amended: a cycle that reaches Ready with a non-empty trajectory leaves
\* the cache entry of its device holding that trajectory, or as it was when
\* the write failed; with an empty trajectory it leaves the cache as it was.
\* No other entry changes.
C5_CacheWrittenWhenNonEmpty ==
    [][ \A c \in cycles :
            ReachesReady(c) =>
                /\ \A d \in DeviceIds \ {c.dev} : localStorage'[d] = localStorage[d]
                /\ history' = <<>> => localStorage'[c.dev] = localStorage[c.dev]
                /\ history' # <<>> =>
                       \/ /\ localStorage'[c.dev].t = "json"
                          /\ localStorage'[c.dev].value = JArr(AsJson(history'))
                       \/ localStorage'[c.dev] = localStorage[c.dev] ]_vars

\* C5 witness: a cycle has committed a non-empty trajectory, one with a NaN
\* ts, and the cache entry of its device holds it with that ts as null
C5_SavedCommitted ==
    /\ history # <<>>
    /\ historySource # NoSource
    /\ localStorage[historySource].t = "json"
    /\ localStorage[historySource].value = JArr(AsJson(history))
    /\ history # AsJson(history)

\* C14: no two loadData calls for one device are in flight together.
C14_OneCyclePerDevice ==
    \A c1, c2 \in cycles : c1.dev = c2.dev => c1.id = c2.id

\* a loadData call passes its guard in this step
StartsCycle == nextCycle' # nextCycle

\* C16: a loadData call that passes its guard leaves loading set and the
\* fix, the trajectory and the error cleared, with both of its requests
\* still pending.
C16_StartClearsDisplay ==
    [][ StartsCycle =>
            /\ loading'
            /\ latestLocation' = JNull
            /\ history' = <<>>
            /\ error' = NoError
            /\ \E c \in cycles' \ cycles :
                   c.dev = deviceId /\ c.latest = Pending /\ c.hist = Pending ]_vars

\* C16 witness: the first call has completed and a second call has just
\* started: nothing of it has settled and the display is clear
C16_SecondCycleStarted ==
    /\ cycles = { [id |-> 2, dev |-> deviceId, latest |-> Pending, hist |-> Pending] }
    /\ loading
    /\ latestLocation = JNull /\ history = <<>> /\ error = NoError

\* C17: the step in which a call completes starts no request, and with
\* auto-refresh off a request is started only by the Refresh button, which
\* is enabled while nothing is loading.
C17_NoRetryAfterFailure ==
    [][ /\ \A c \in cycles : Completes(c) => ~StartsCycle /\ cycles' = cycles \ {c}
        /\ (StartsCycle /\ ~autoRefresh) => ~loading ]_vars

\* C17 witness: a call has failed with auto-refresh off and nothing is in
\* flight
C17_FailedAndIdle ==
    /\ error = FailedToLoad
    /\ ~autoRefresh
    /\ cycles = {}
    /\ ~loading

\* C18: a call for the selected device that found no latest fix (a null
\* body or a 404) and commits a non-empty trajectory ends in the try block
\* and leaves displayed a fix made of the last point of the trajectory: its
\* lat, its lon, its ts as timestamp, and the selected device as device_id.
C18_SynthesizedFix ==
    [][ \A c \in cycles :
            ( /\ ReachesReady(c)
              /\ c.dev = deviceId
              /\ c.latest = Fulfilled(JNull)
              /\ history' # <<>> )
            => LET last == history'[Len(history')]
               IN  /\ latestLocation' # JNull
                   /\ latestLocation'.lat = last.lat
                   /\ latestLocation'.lon = last.lon
                   /\ latestLocation'.timestamp = last.ts
                   /\ latestLocation'.device_id = JStr(deviceId')
                   /\ error' = error ]_vars

\* C18 witness: the fix displayed for the selected device is the one made
\* of the last point of the displayed trajectory
C18_LastPointShownAsFix ==
    /\ history # <<>>
    /\ historySource = deviceId /\ fixSource = deviceId
    /\ latestLocation = LastAsLatest(history[Len(history)], deviceId)

(***************************************************************************)
(* cleanAndSortHistory called on its own: the inputs are drawn in the      *)
(* initial state, the first step calls it, the second calls it on its own  *)
(* result with the same options and the same current time.                 *)
(***************************************************************************)
MaxLen == 3

RawElements ==
    { JPoint(JNum(10000), Lon0, JNum(1700000000)),        \* A
      JPoint(JNum(11000), Lon0, JNum(1700000005)),        \* 111 km from A, 5 s later
      JPoint(JNum(12000), Lon0, JNum(1700000010)),        \* 222 km from A, 10 s later
      JPoint(JNumStr(14000), Lon0, JNumStr(1700000070)),  \* 445 km from A, 70 s later
      JPoint(JNum(13000), Lon0, JNum(1700000005)),        \* same ts as the second
      JPoint(JNum(10000), Lon0, JNum(1500000000)),        \* July 2017
      JPoint(JNum(10000), Lon0, JNum(1793086401)),        \* a day and a second ahead
      JPoint(JNum(10000), Lon0, JKilo(1700000000)),       \* ts in milliseconds
      JPoint(JNum(10000), Lon0, JNull),                   \* no ts
      JPoint(JNum(11000), Lon0, JBadStr),                 \* ts is no number
      JPoint(JBadStr, Lon0, JNum(1700000000)),            \* lat is no number
      JPoint(JNum(91000), Lon0, JNum(1700000020)),        \* latitude 91
      JNull }                                             \* a null element

\* four points a few seconds apart, the third far away from the others
ExampleHistory ==
    JArr(<< JPoint(JNum(10000), JNum(10000), JNum(1000)),
            JPoint(JNum(10001), JNum(10001), JNum(1010)),
            JPoint(JNum(50000), JNum(50000), JNum(1015)),
            JPoint(JNum(10002), JNum(10002), JNum(1020)) >>)

RawHistories ==
    {JBadStr, ExampleHistory} \cup
    { JArr(s) : s \in UNION { [1..n -> RawElements] : n \in 0..MaxLen } }

OptsValues ==
    { DefaultOpts,
      [minYear |-> 50, jumpKmThreshold |-> 200, maxFutureSec |-> 24 * 3600],
      [minYear |-> 0, jumpKmThreshold |-> 100, maxFutureSec |-> 0] }

\* the App is held in the state in which the page opens
InitClean ==
    /\ InitApp
    /\ localStorage = [d \in DeviceIds |-> Absent]
    /\ rawHistory \in RawHistories
    /\ opts \in OptsValues
    /\ nowSec \in NowValues
    /\ sortEngine \in SortEngines
    /\ cleanPc = "input"
    /\ cleaned = <<>>
    /\ recleaned = <<>>
    /\ IdleFetch
    /\ IdleMarker
    /\ IdleApi
    /\ IdleBackend

\* const cleaned = cleanAndSortHistory(rawHistory, opts)
CleanCall ==
    /\ cleanPc = "input"
    /\ ~CleanThrows(rawHistory)
    /\ cleaned' = cleanAndSortHistory(rawHistory, opts, nowSec, sortEngine)
    /\ cleanPc' = "cleaned"
    /\ UNCHANGED <<rawHistory, opts, nowSec, sortEngine, recleaned, appVars,
                 fetchVars, markerVars, apiVars, backendVars>>

\* the same call on an array with a null element: the map callback throws
CleanCallThrows ==
    /\ cleanPc = "input"
    /\ CleanThrows(rawHistory)
    /\ cleanPc' = "threw"
    /\ UNCHANGED <<rawHistory, opts, nowSec, sortEngine, cleaned, recleaned, appVars,
                 fetchVars, markerVars, apiVars, backendVars>>

\* cleanAndSortHistory(cleaned, opts)
CleanAgain ==
    /\ cleanPc = "cleaned"
    /\ recleaned' = cleanAndSortHistory(JArr(cleaned), opts, nowSec, sortEngine)
    /\ cleanPc' = "recleaned"
    /\ UNCHANGED <<rawHistory, opts, nowSec, sortEngine, cleaned, appVars,
                 fetchVars, markerVars, apiVars, backendVars>>

NextClean == CleanCall \/ CleanCallThrows \/ CleanAgain

SpecClean == InitClean /\ [][NextClean]_vars

(***************************************************************************)
(* Claims about cleanAndSortHistory (checked under SpecClean)              *)
(***************************************************************************)
Returned == cleanPc \in {"cleaned", "recleaned"}

\* p.ts <= q.ts as JavaScript compares: false when either side is NaN
TsLeq(a, b) == a.t = "number" /\ b.t = "number" /\ a.v <= b.v

\* the points of the input that pass the coordinate and the timestamp filter
PassingFilters ==
    LET ValidTs(p) == HasValidTs(p, opts, nowSec)
    IN  SelectSeq(SelectSeq(MapNormalize(rawHistory.items), HasFiniteCoords), ValidTs)

\* C6: the output of clean() is ordered by non-decreasing timestamp: every
\* adjacent pair p, q of the output has p.ts <= q.ts.
C6_OutputSortedByTs ==
    Returned =>
        \A i \in 1..(Len(cleaned) - 1) : TsLeq(cleaned[i].ts, cleaned[i + 1].ts)

\* C7: no two adjacent points of the output are further apart than
\* jumpKmThreshold km while their timestamps differ by less than 60 s.
C7_NoAdjacentSpike ==
    Returned =>
        \A i \in 1..(Len(cleaned) - 1) :
            LET p == cleaned[i]
                q == cleaned[i + 1]
            IN  ~ /\ p.ts.t = "number" /\ q.ts.t = "number"
                  /\ q.ts.v - p.ts.v < 60
                  /\ EarthMetres(p.lat.v, p.lon.v, q.lat.v, q.lon.v)
                         > opts.jumpKmThreshold * 1000

\* C7 witness: a call that dropped a spike and returned at least two points
C7_SpikeDropped ==
    /\ cleanPc = "cleaned"
    /\ rawHistory.t = "array"
    /\ Len(cleaned) >= 2
    /\ Len(PassingFilters) > Len(cleaned)

\* C8: clean(clean(x)) = clean(x), point for point and in the same order.
C8_Idempotent == cleanPc = "recleaned" => recleaned = cleaned

\* C8 witness: the second call has returned, for an input that clean()
\* reordered and from which it dropped a spike
C8_Recleaned ==
    /\ cleanPc = "recleaned"
    /\ Len(cleaned) >= 2
    /\ Len(PassingFilters) > Len(cleaned)
    /\ PassingFilters # SortByTs(PassingFilters, sortEngine)

\* C9: every point of the output has a timestamp that is a number t with
\* minYear's boundary <= t <= now + maxFutureSec.
C9_OutputTsInRange ==
    Returned =>
        \A i \in 1..Len(cleaned) :
            /\ cleaned[i].ts.t = "number"
            /\ ~BelowMinYear(cleaned[i].ts.v, opts.minYear)
            /\ cleaned[i].ts.v <= nowSec + opts.maxFutureSec

\* 2009-01-01T00:00:00Z in epoch seconds
Epoch2009 == 1230768000

\* C10: with default options a single point with finite coordinates whose
\* timestamp lies in 2009 or later and at most 86400 s ahead of now is
\* returned as a one-point trajectory.
C10_Default2009PointKept ==
    ( /\ Returned
      /\ opts = DefaultOpts
      /\ rawHistory.t = "array"
      /\ Len(rawHistory.items) = 1
      /\ IsObject(rawHistory.items[1])
      /\ HasFiniteCoords(NormalizePoint(rawHistory.items[1]))
      /\ NormalizePoint(rawHistory.items[1]).ts.t = "number"
      /\ NormalizePoint(rawHistory.items[1]).ts.v >= Epoch2009
      /\ NormalizePoint(rawHistory.items[1]).ts.v <= nowSec + 86400 )
    => cleaned = <<NormalizePoint(rawHistory.items[1])>>

\* C11: with default options the call on ExampleHistory returns its first,
\* second and fourth point, in that order.
C11_ExampleDropsThird ==
    (cleanPc = "cleaned" /\ rawHistory = ExampleHistory /\ opts = DefaultOpts)
    => cleaned = << ExampleHistory.items[1], ExampleHistory.items[2],
                    ExampleHistory.items[4] >>

\* C12: the call never throws.
C12_NeverThrows == cleanPc # "threw"

\* C13: every point of the returned trajectory has its latitude in
\* [-90, 90] and its longitude in [-180, 180].
C13_CoordinatesInRange ==
    Returned =>
        \A i \in 1..Len(cleaned) :
            /\ IsFiniteNum(cleaned[i].lat) /\ IsFiniteNum(cleaned[i].lon)
            /\ cleaned[i].lat.v >= -90000 /\ cleaned[i].lat.v <= 90000
            /\ cleaned[i].lon.v >= -180000 /\ cleaned[i].lon.v <= 180000

\* the candidates of the loop, in the order in which it visits them
Candidates == SortByTs(PassingFilters, sortEngine)

\* cleaned after the loop has visited the first k candidates
AcceptedAfter(k) == SpikeLoop(SubSeq(Candidates, 1, k), 1, <<>>, opts)

\* more than jumpKmThreshold km apart
FarApart(a, b) ==
    EarthMetres(a.lat.v, a.lon.v, b.lat.v, b.lon.v) > opts.jumpKmThreshold * 1000

\* b.ts - a.ts < 60
Within60(a, b) == a.ts.t = "number" /\ b.ts.t = "number" /\ b.ts.v - a.ts.v < 60

\* b.ts - a.ts >= 60
AtLeast60(a, b) == a.ts.t = "number" /\ b.ts.t = "number" /\ b.ts.v - a.ts.v >= 60

\* the loop discards candidate k
Discarded(k) == k >= 2 /\ AcceptedAfter(k) = AcceptedAfter(k - 1)

\* C31: when the loop discards a candidate, the accepted points stay as
\* they were, and the candidate after it is judged (distance and dt)
\* against the same last accepted point, not against the discarded one.
C31_DiscardKeepsBaseline ==
    (Returned /\ rawHistory.t = "array") =>
        /\ cleaned = AcceptedAfter(Len(Candidates))
        /\ \A k \in 2..(Len(Candidates) - 1) :
               Discarded(k) =>
                   LET acc  == AcceptedAfter(k - 1)
                       base == acc[Len(acc)]
                       next == Candidates[k + 1]
                   IN  AcceptedAfter(k + 1) =
                           IF FarApart(base, next) /\ Within60(base, next)
                           THEN acc ELSE Append(acc, next)

\* C31 witness: a candidate was discarded, and the candidate after it is
\* one that the two baselines judge differently
C31_BaselineMatters ==
    /\ cleanPc = "cleaned"
    /\ rawHistory.t = "array"
    /\ \E k \in 2..(Len(Candidates) - 1) :
           /\ Discarded(k)
           /\ LET acc  == AcceptedAfter(k - 1)
                  base == acc[Len(acc)]
                  prev == Candidates[k]
                  next == Candidates[k + 1]
              IN  (FarApart(base, next) /\ Within60(base, next))
                      # (FarApart(prev, next) /\ Within60(prev, next))

\* C32: a candidate whose timestamp is at least 60 s after that of the last
\* accepted point is accepted, however far from it.
C32_SlowMovementAccepted ==
    (Returned /\ rawHistory.t = "array") =>
        /\ cleaned = AcceptedAfter(Len(Candidates))
        /\ \A k \in 2..Len(Candidates) :
               LET acc == AcceptedAfter(k - 1)
               IN  AtLeast60(acc[Len(acc)], Candidates[k])
                       => AcceptedAfter(k) = Append(acc, Candidates[k])

\* C32 witness: the output holds two adjacent points further apart than the
\* threshold, the second at least 60 s after the first
C32_FarButSlow ==
    /\ cleanPc = "cleaned"
    /\ rawHistory.t = "array"
    /\ \E i \in 1..(Len(cleaned) - 1) :
           /\ FarApart(cleaned[i], cleaned[i + 1])
           /\ AtLeast60(cleaned[i], cleaned[i + 1])

(***************************************************************************)
(* safeFetchJson called on its own (SpecFetch): one call with the timeout  *)
(* of either caller, the clock counted in seconds.  The server and the     *)
(* network decide when the response head and the body arrive, if ever.     *)
(***************************************************************************)
MaxSeconds == 17

OnlyFetchChanges ==
    UNCHANGED <<cleanVars, sortEngine, appVars, markerVars, apiVars, backendVars>>

\* lines 151-155: the timer is set and fetch is called
InitFetch ==
    /\ InitApp
    /\ localStorage = [d \in DeviceIds |-> Absent]
    /\ IdleClean
    /\ sortEngine \in SortEngines
    /\ IdleMarker
    /\ IdleApi
    /\ IdleBackend
    /\ fetchPc = "fetching"
    /\ fetchTimeout \in {LatestTimeoutSec, HistoryTimeoutSec}
    /\ fetchTimerArmed = TRUE
    /\ fetchElapsed = 0
    /\ fetchResult = NoResponse

\* a second passes while the call waits; a pending timer is not overrun
FetchSecondPasses ==
    /\ fetchPc \in {"fetching", "reading"}
    /\ fetchElapsed < MaxSeconds
    /\ fetchTimerArmed => fetchElapsed < fetchTimeout
    /\ fetchElapsed' = fetchElapsed + 1
    /\ UNCHANGED <<fetchPc, fetchTimeout, fetchTimerArmed, fetchResult>>
    /\ OnlyFetchChanges

\* line 152: controller.abort() after timeoutMs; fetch rejects and the
\* catch block (171-175) rethrows
FetchTimerFires ==
    /\ fetchPc = "fetching"
    /\ fetchTimerArmed
    /\ fetchElapsed = fetchTimeout
    /\ fetchPc' = "threw"
    /\ fetchTimerArmed' = FALSE
    /\ fetchResult' = ErrorResponse
    /\ UNCHANGED <<fetchTimeout, fetchElapsed>>
    /\ OnlyFetchChanges

\* lines 155-165: fetch resolves with the head of the response; the timer
\* is cleared, a response that is not ok is returned at once
FetchResolves ==
    \E status \in {200, 404, 500} :
        /\ fetchPc = "fetching"
        /\ fetchTimerArmed' = FALSE
        /\ IF status = 200
           THEN /\ fetchPc' = "reading"
                /\ fetchResult' = NoResponse
           ELSE /\ fetchPc' = "returned"
                /\ fetchResult' = HttpResponse(status)
        /\ UNCHANGED <<fetchTimeout, fetchElapsed>>
        /\ OnlyFetchChanges

\* fetch rejects (network error); the catch block rethrows
FetchRejects ==
    /\ fetchPc = "fetching"
    /\ fetchPc' = "threw"
    /\ fetchTimerArmed' = FALSE
    /\ fetchResult' = ErrorResponse
    /\ UNCHANGED <<fetchTimeout, fetchElapsed>>
    /\ OnlyFetchChanges

\* lines 166-169: res.json() resolves
FetchBodyParsed ==
    \E json \in {JNull, JArr(<<>>), [t |-> "object", coordinates |-> JArr(<<>>)]} :
        /\ fetchPc = "reading"
        /\ fetchPc' = "returned"
        /\ fetchResult' = OkResponse(json, JNull)
        /\ UNCHANGED <<fetchTimeout, fetchTimerArmed, fetchElapsed>>
        /\ OnlyFetchChanges

\* res.json() rejects (the body is no JSON, the connection breaks)
FetchBodyFails ==
    /\ fetchPc = "reading"
    /\ fetchPc' = "threw"
    /\ fetchResult' = ErrorResponse
    /\ UNCHANGED <<fetchTimeout, fetchTimerArmed, fetchElapsed>>
    /\ OnlyFetchChanges

NextFetch ==
    \/ FetchSecondPasses
    \/ FetchTimerFires
    \/ FetchResolves
    \/ FetchRejects
    \/ FetchBodyParsed
    \/ FetchBodyFails

SpecFetch == InitFetch /\ [][NextFetch]_vars

(***************************************************************************)
(* Claims about safeFetchJson (checked under SpecFetch)                    *)
(***************************************************************************)
\* C15: a request is never waited for longer than its timeout, the reading
\* of the body included: at the timeout the wait has ended.
C15_WaitBoundedByTimeout ==
    fetchPc \in {"fetching", "reading"} => fetchElapsed <= fetchTimeout

(***************************************************************************)
(* SmoothMarker under App (SpecMarker).  App renders                       *)
(* {latestLocation && <SmoothMarker position={[lat, lon]}>} (679-680):     *)
(* every setLatestLocation(null) unmounts the marker, every fix mounts it  *)
(* or renders it again with a new position array.  Coordinates are         *)
(* floating-point numbers of MantissaBits significant bits, every          *)
(* operation on them rounded to the nearest one.                           *)
(***************************************************************************)
MaxRetargets == 2
MaxInFlight == 3
MantissaBits == 6

MarkerScale == 16 ^ (MaxRetargets + 1)

Position(lat, lon) == [lat |-> lat, lon |-> lon]

\* a latitude whose mantissa has its lowest bit set, as the decimal
\* fractions of degrees the server reports have
FullMantissa == 2 ^ (MantissaBits - 1) + 1

\* the positions of the fixes the server reports
MarkerTargets ==
    { Position(0, 0), Position(MarkerScale, 0), Position(0, MarkerScale),
      Position(FullMantissa, 0) }

\* the ease of line 219 at t = q / 4, in sixteenths:
\* 4 t^3 below one half, 1 - (-2 t + 2)^3 / 2 from there
Ease16(q) ==
    CASE q = 0 -> 0
      [] q = 1 -> 1
      [] q = 2 -> 8
      [] q = 3 -> 15
      [] OTHER -> 16

\* the spacing of the floating-point numbers around the magnitude a / den
RECURSIVE Quantum(_, _, _)
Quantum(a, den, unit) ==
    IF a < (2 ^ MantissaBits) * unit * den THEN unit
    ELSE Quantum(a, den, 2 * unit)

\* the result of an arithmetic operation of lines 220-221 whose exact value
\* is num / den: the nearest floating-point number, a tie going to the even
\* mantissa
RoundToNearest(num, den) ==
    LET a    == Abs(num)
        step == Quantum(a, den, 1) * den
        k    == a \div step
        r    == a % step
        m    == IF 2 * r > step \/ (2 * r = step /\ k % 2 = 1) THEN k + 1 ELSE k
        v    == m * (step \div den)
    IN  IF num < 0 THEN 0 - v ELSE v

\* from + (to - from) * ease on one coordinate
InterpolateAxis(from, to, q) ==
    LET diff   == RoundToNearest(to - from, 1)
        scaled == RoundToNearest(diff * Ease16(q), 16)
    IN  RoundToNearest(from + scaled, 1)

\* lines 220-221
Interpolate(from, to, q) ==
    Position(InterpolateAxis(from.lat, to.lat, q),
             InterpolateAxis(from.lon, to.lon, q))

\* the effect, had it started from the position prop of the last render
SmoothMarkerEffectFromTarget(ref, pos) ==
    IF ref = pos THEN NoAnim ELSE [from |-> markerPosition, to |-> pos, q |-> 0]

\* the effect, had it requested its frame without comparing from and to
SmoothMarkerEffectAlways(ref, pos) ==
    [from |-> ref, to |-> pos, q |-> 0]

\* the effect (204-238), its cleanup having cancelled the frame requested
\* before: nothing when the marker is at the position, else an animation
\* from markerRef.current whose first frame is requested.  q counts the
\* quarters of the 700 ms that had passed at the last frame.
SmoothMarkerEffect(ref, pos) ==
    IF ref = pos THEN NoAnim ELSE [from |-> ref, to |-> pos, q |-> 0]

\* a cancelAnimationFrame that leaves the callback scheduled
cancelAnimationFrameIgnored(frames, anim) == frames

\* cancelAnimationFrame(animRef.current) (214, 237): the request
\* animRef.current names, that of the step of anim, is withdrawn
cancelAnimationFrame(frames, anim) == frames \ {anim}

\* requestAnimationFrame(step) (235): the step of anim is scheduled; the
\* effect that returned at line 209 requests nothing
requestAnimationFrame(frames, anim) ==
    IF anim = NoAnim THEN frames ELSE frames \cup {anim}

OnlyMarkerChanges ==
    UNCHANGED <<cleanVars, sortEngine, appVars, fetchVars, apiVars, backendVars>>

\* the page opens: the loadData call of the mount effect is in flight and
\* latestLocation is null
InitMarker ==
    /\ InitApp
    /\ localStorage = [d \in DeviceIds |-> Absent]
    /\ IdleClean
    /\ sortEngine \in SortEngines
    /\ IdleFetch
    /\ IdleApi
    /\ IdleBackend
    /\ markerMounted = FALSE
    /\ markerPosition = NoPosition
    /\ markerRef = NoPosition
    /\ markerAnim = NoAnim
    /\ markerFrames = {}
    /\ markerDepth = 0
    /\ markerInFlight = 1
    /\ markerPrevFix = NoPosition

\* latestLocation becomes null: the marker is unmounted, the cleanup of its
\* effect cancels the frame
Unmount ==
    /\ markerMounted' = FALSE
    /\ markerPosition' = NoPosition
    /\ markerRef' = NoPosition
    /\ markerAnim' = NoAnim
    /\ markerFrames' = cancelAnimationFrame(markerFrames, markerAnim)
    /\ markerDepth' = 0

\* latestLocation becomes a fix at pos
ShowFix(pos) ==
    IF ~markerMounted
    THEN \* mounted: useRef takes the position, the effect finds from = to
         /\ markerMounted' = TRUE
         /\ markerPosition' = pos
         /\ markerRef' = pos
         /\ markerAnim' = SmoothMarkerEffect(pos, pos)
         /\ markerFrames' = requestAnimationFrame(markerFrames,
                                                  SmoothMarkerEffect(pos, pos))
         /\ markerDepth' = 0
    ELSE \* rendered again with the new position: the cleanup of the effect
         \* that ran before, then the effect
         /\ markerDepth <= MaxRetargets
         /\ markerPosition' = pos
         /\ markerAnim' = SmoothMarkerEffect(markerRef, pos)
         /\ markerFrames' =
                requestAnimationFrame(cancelAnimationFrame(markerFrames, markerAnim),
                                      SmoothMarkerEffect(markerRef, pos))
         /\ UNCHANGED <<markerMounted, markerRef, markerDepth>>

\* loadData passes its guard (283-287): setLatestLocation(null)
MarkerCycleStarts ==
    /\ markerInFlight < MaxInFlight
    /\ markerInFlight' = markerInFlight + 1
    /\ markerPrevFix' = IF markerMounted THEN markerPosition ELSE markerPrevFix
    /\ Unmount
    /\ OnlyMarkerChanges

\* the continuation of a loadData call (295-361): it sets a fix, or null
\* (no fix and no trajectory, or the catch block)
MarkerCycleCommits ==
    \E pos \in MarkerTargets \cup {NoPosition} :
        /\ markerInFlight > 0
        /\ markerInFlight' = markerInFlight - 1
        /\ IF pos = NoPosition
           THEN /\ Unmount
                /\ markerPrevFix' = IF markerMounted THEN markerPosition ELSE markerPrevFix
           ELSE /\ ShowFix(pos)
                /\ UNCHANGED markerPrevFix
        /\ OnlyMarkerChanges

\* the device input (517-522) or clearLocalData (366): setLatestLocation(null)
\* by the user
MarkerCleared ==
    /\ markerMounted \/ markerPrevFix # NoPosition
    /\ Unmount
    /\ markerPrevFix' = NoPosition
    /\ UNCHANGED markerInFlight
    /\ OnlyMarkerChanges

\* App renders again with the same fix (another state of App changed, as by
\* the checkboxes 542-562): position is a new array, so the effect runs
\* again; an animation in flight starts anew from where the marker is, and
\* one starts when the last animation left the marker beside the position
MarkerRendersAgain ==
    /\ markerMounted
    /\ \/ markerAnim # NoAnim /\ markerAnim.q > 0
       \/ markerAnim = NoAnim /\ markerRef # markerPosition
    /\ markerDepth <= MaxRetargets
    /\ markerAnim' = SmoothMarkerEffect(markerRef, markerPosition)
    /\ markerFrames' =
           requestAnimationFrame(cancelAnimationFrame(markerFrames, markerAnim),
                                 SmoothMarkerEffect(markerRef, markerPosition))
    /\ UNCHANGED <<markerMounted, markerPosition, markerRef, markerDepth,
                   markerInFlight, markerPrevFix>>
    /\ OnlyMarkerChanges

\* a scheduled step(now) (216-233) runs at a later quarter q of the
\* duration of its animation: it moves the marker and, below t = 1,
\* requests the next frame, whose handle animRef.current takes
MarkerFrame ==
    \E anim \in markerFrames, q \in 1..4 :
        /\ q > anim.q
        /\ markerRef' = Interpolate(anim.from, anim.to, q)
        /\ markerFrames' = requestAnimationFrame(markerFrames \ {anim},
                               IF q = 4 THEN NoAnim ELSE [anim EXCEPT !.q = q])
        /\ markerAnim' = IF q < 4 THEN [anim EXCEPT !.q = q]
                         ELSE IF markerAnim = anim THEN NoAnim
                         ELSE markerAnim
        /\ markerDepth' = IF q = 4 THEN 0
                          ELSE IF anim.q = 0 THEN markerDepth + 1
                          ELSE markerDepth
        /\ UNCHANGED <<markerMounted, markerPosition, markerInFlight, markerPrevFix>>
        /\ OnlyMarkerChanges

NextMarker ==
    \/ MarkerCycleStarts
    \/ MarkerCycleCommits
    \/ MarkerCleared
    \/ MarkerRendersAgain
    \/ MarkerFrame

SpecMarker == InitMarker /\ [][NextMarker]_vars

(***************************************************************************)
(* Claims about the marker (checked under SpecMarker)                      *)
(***************************************************************************)
\* the fix that was displayed last
PreviousFix == IF markerMounted THEN markerPosition ELSE markerPrevFix

\* C19: a loadData call that commits a fix at another position than the fix
\* displayed before leaves an animation toward the new position running,
\* the marker not yet there.
C19_CommitAnimates ==
    [][ ( /\ markerInFlight' = markerInFlight - 1
          /\ markerMounted'
          /\ PreviousFix # NoPosition
          /\ markerPosition' # PreviousFix )
        => /\ markerAnim' # NoAnim
           /\ markerAnim'.to = markerPosition'
           /\ markerRef' # markerPosition' ]_vars

\* C20: when the position changes while an animation is in flight, the
\* marker stays where the last frame put it and the new animation starts
\* from there toward the new position.
C20_RetargetFromRendered ==
    [][ ( /\ markerMounted /\ markerMounted'
          /\ markerAnim # NoAnim
          /\ markerPosition' # markerPosition )
        => /\ markerRef' = markerRef
           /\ markerAnim' # NoAnim =>
                  /\ markerAnim'.from = markerRef
                  /\ markerAnim'.to = markerPosition' ]_vars

\* C20 witness: an animation toward the third position is running from a
\* point between the first and the second position
C20_RetargetedMidway ==
    /\ markerAnim # NoAnim
    /\ markerAnim.to = Position(0, MarkerScale)
    /\ markerAnim.from.lon = 0
    /\ markerAnim.from.lat > 0 /\ markerAnim.from.lat < MarkerScale
    /\ markerAnim.q > 0

\* C21: at most one chain of frame callbacks is scheduled for the marker,
\* that of the animation started last, and every frame that moves the
\* marker is a frame of that animation.
C21_OneFrameChain ==
    /\ [](markerFrames \subseteq {markerAnim} /\ Cardinality(markerFrames) <= 1)
    /\ [][ (markerMounted /\ markerMounted' /\ markerRef' # markerRef)
           => /\ markerAnim # NoAnim
              /\ \E q \in 1..4 :
                     /\ q > markerAnim.q
                     /\ markerRef' = Interpolate(markerAnim.from, markerAnim.to, q)
         ]_vars

\* C21 witness: an animation was started from a point between two fixes,
\* where the frames of the animation before it had brought the marker; its
\* first frame is the one scheduled
C21_Superseded ==
    /\ markerAnim # NoAnim
    /\ markerAnim.q = 0
    /\ markerAnim.from \notin MarkerTargets
    /\ markerFrames = {markerAnim}

\* C22: when an animation ends while its position is still the one
\* displayed (no fix was committed or cleared in the step), no frame is
\* scheduled any more and the marker is at the target of the animation
\* exactly.
C22_EndsAtTarget ==
    [][ ( /\ markerMounted /\ markerMounted'
          /\ markerInFlight' = markerInFlight
          /\ markerAnim # NoAnim /\ markerAnim' = NoAnim )
        => /\ markerFrames' = {}
           /\ markerRef' = markerAnim.to ]_vars

\* C28: when a fix is committed at the position the marker shows (the one
\* useRef took at the mount, or the one the last frame rendered), the effect
\* schedules no frame and the marker stays where it is.
C28_NoAnimationAtTarget ==
    [][ ( /\ markerMounted'
          /\ markerInFlight' # markerInFlight
          /\ markerPosition' = IF markerMounted THEN markerRef ELSE markerPosition' )
        => /\ markerFrames' = {}
           /\ markerAnim' = NoAnim
           /\ markerRef' = markerPosition' ]_vars

\* C28 witness: the last call in flight committed a fix at the position the
\* marker shows, and neither an animation nor a frame is pending
C28_SameFixCommitted ==
    /\ markerMounted
    /\ markerRef = markerPosition
    /\ markerAnim = NoAnim
    /\ markerFrames = {}
    /\ markerPrevFix = NoPosition
    /\ markerInFlight = 0

(***************************************************************************)
(* Claims about the local cache (checked under Spec)                       *)
(***************************************************************************)
\* the item of device d holds no array: it is absent, unparsable, or JSON of
\* another kind
NoStoredSequence(d) ==
    \/ localStorage[d] = Absent
    \/ localStorage[d] = Corrupt
    \/ localStorage[d].t = "json" /\ localStorage[d].value.t # "array"

\* C23: for a device without a stored array (never saved, removed by
\* clearLocalData, unparsable, or not an array) loadLocalHistory returns
\* the empty trajectory; in particular right after the entry was removed.
C23_LoadEmptyWithoutSequence ==
    /\ [](\A d \in DeviceIds :
              NoStoredSequence(d) => loadLocalHistory(localStorage, d) = <<>>)
    /\ [][ (localStorage[deviceId] # Absent /\ localStorage'[deviceId] = Absent)
           => loadLocalHistory(localStorage', deviceId) = <<>> ]_vars

\* C23 witness: a cycle whose server history was empty has read the
\* unparsable item of its device and ended with an empty trajectory and no
\* error
C23_CorruptReadAsEmpty ==
    /\ localStorage[deviceId] = Corrupt
    /\ nextCycle > 1
    /\ cycles = {}
    /\ ~loading
    /\ history = <<>>
    /\ error = NoError

\* the trajectory the loadData call c computes when it continues at now
CleanedBy(c, now) ==
    cleanAndSortHistory(NormalizedHistory(c.hist.value, localStorage, c.dev),
                        DefaultOpts, now, sortEngine)

\* C24: a loadData call that nothing else fails, whose trajectory is not
\* empty and is not in the cache afterwards (setItem threw), still ends
\* loading and displays its fix and its trajectory, and the failure sets no
\* error: the error is what it was.
C24_SaveFailureSilent ==
    [][ \A c \in cycles : \A now \in NowValues :
            ( /\ ReachesReady(c)
              /\ CleanedBy(c, now) # <<>>
              /\ localStorage'[c.dev] # Stringified(CleanedBy(c, now)) )
            => /\ loading' = FALSE
               /\ error' = error
               /\ history' = CleanedBy(c, now)
               /\ latestLocation' # JNull
               /\ fixSource' = c.dev
               /\ historySource' = c.dev ]_vars

\* C24 witness: Ready with a trajectory of the selected device displayed
\* that the cache does not hold, and no error
C24_ReadyWithoutCache ==
    /\ ~loading
    /\ cycles = {}
    /\ history # <<>>
    /\ historySource = deviceId
    /\ latestLocation # JNull
    /\ error = NoError
    /\ localStorage[deviceId] # Stringified(history)

FixBy(c, now) ==
    IF c.latest.value.t = "object"
    THEN NormalizedLatest(c.latest.value, c.dev, now)
    ELSE IF Len(CleanedBy(c, now)) > 0
    THEN LastAsLatest(CleanedBy(c, now)[Len(CleanedBy(c, now))], c.dev)
    ELSE JNull

\* both requests of the loadData call c have answered
BothAnswered(c) == c.latest \notin {Pending, Rejected} /\ c.hist # Pending

\* C33: the displayed fix and the displayed trajectory are those of one
\* loadData call or are both cleared: a step that changes either of them
\* clears both, or is the continuation of one call whose two requests have
\* both answered and sets the fix and the trajectory computed from that
\* call's two answers; and a displayed trajectory is never shown without a
\* fix of the same device.
C33_DisplayFromOneCycle ==
    /\ [](history # <<>> => latestLocation # JNull /\ fixSource = historySource)
    /\ [][ (latestLocation' # latestLocation \/ history' # history)
            => \/ latestLocation' = JNull /\ history' = <<>>
               \/ \E c \in cycles : \E now \in NowValues :
                      /\ BothAnswered(c)
                      /\ Completes(c)
                      /\ latestLocation' = FixBy(c, now)
                      /\ history' = CleanedBy(c, now) ]_vars

\* C33 witness: the fix and the trajectory of a completed call are
\* displayed while another call, started before it completed, is still in
\* flight
C33_PairShownDuringFlight ==
    /\ latestLocation # JNull
    /\ history # <<>>
    /\ fixSource = historySource
    /\ cycles # {}

\* C34: the view is told loading whenever a loadData call is in flight: the
\* flag is true as long as some started call has not continued past its
\* await.
C34_LoadingWhileInFlight == cycles # {} => loading

\* C35: from clearLocalData until a loadData call started after it ends,
\* the cache entry of the device that was cleared is absent and no fix and
\* no trajectory is displayed: the calls that were in flight at the clear
\* neither write the entry nor display anything.
C35_ClearHoldsUntilNewCycle ==
    lastClear # NoClear =>
        /\ localStorage[lastClear.dev] = Absent
        /\ latestLocation = JNull
        /\ history = <<>>

(***************************************************************************)
(* The timestamp of a latest fix (SpecApi): parseTimestampCandidate and    *)
(* fetchLatestLocation called on one payload timestamp, one Date header    *)
(* and one reading of the local clock.                                     *)
(***************************************************************************)
\* values of data.timestamp in the body of a response
ApiCandidates ==
    { JNull, JUndefined, JNaN, JInf, JBadStr,
      JNum(42), JNum(Billion - 1), JNum(Billion), JNum(1700000000),
      JKilo(999999), JKilo(Billion \div 1000), JKilo(Billion), JKilo(Billion + 1),
      JKilo(1700000000),
      JFrac(Billion - 1), JFrac(1700000000),
      JNumStr(42), JNumStr(1700000000), JFracStr(1700000000),
      JDateStr(1700000000) }

\* the Date header of the response: absent, a date, or no date
ApiHeaders == { JNull, JDateStr(1793000100), JBadStr }

\* Math.floor(Date.now() / 1000) when the response is handled
ApiClocks == { 1793000000, 1793000200 }

OnlyApiChanges ==
    UNCHANGED <<cleanVars, sortEngine, appVars, fetchVars, markerVars, backendVars>>

InitApi ==
    /\ InitApp
    /\ localStorage = [d \in DeviceIds |-> Absent]
    /\ IdleClean
    /\ sortEngine \in SortEngines
    /\ IdleFetch
    /\ IdleMarker
    /\ IdleBackend
    /\ apiCandidate \in ApiCandidates
    /\ apiHeader \in ApiHeaders
    /\ apiClock \in ApiClocks
    /\ apiPc = "input"
    /\ apiParsed = JNull
    /\ apiFix = Pending

\* parseTimestampCandidate(candidate)
ParseCandidate ==
    /\ apiPc = "input"
    /\ apiParsed' = parseTimestampCandidate(apiCandidate)
    /\ apiPc' = "parsed"
    /\ UNCHANGED <<apiCandidate, apiHeader, apiClock, apiFix>>
    /\ OnlyApiChanges

\* fetchLatestLocation(deviceId) receives a 2xx response whose body carries
\* the candidate and whose head carries the header
LatestReturns ==
    /\ apiPc = "input"
    /\ apiFix' = fetchLatestLocation(
                     OkResponse(LatestBody(JStr("esp01"), JNum(10000), apiCandidate),
                                apiHeader),
                     apiClock)
    /\ apiPc' = "returned"
    /\ UNCHANGED <<apiCandidate, apiHeader, apiClock, apiParsed>>
    /\ OnlyApiChanges

NextApi == ParseCandidate \/ LatestReturns

SpecApi == InitApi /\ [][NextApi]_vars

(***************************************************************************)
(* Claims about the timestamps (checked under SpecApi)                     *)
(***************************************************************************)
\* the candidate is a Number
IsNumeric(x) == x.t \in {"number", "kilonum", "fraction", "infinity", "nan"}

\* x is an integer of at least 1e9
IsEpochSeconds(x) ==
    \/ x.t = "number" /\ x.v >= Billion
    \/ x.t = "kilonum" /\ x.v >= Billion \div 1000

\* n > 1e12, for a Number that is not NaN
Above1e12(n) ==
    \/ n.t = "infinity"
    \/ n.t = "kilonum" /\ n.v > Billion

\* n >= 1e9, for a Number that is not NaN
AtLeast1e9(n) ==
    \/ Above1e12(n)
    \/ n.t = "kilonum" /\ n.v >= Billion \div 1000
    \/ n.t \in {"number", "fraction"} /\ n.v >= Billion

\* C26: on a Number n the result is floor(n / 1000) above 1e12, floor(n)
\* from 1e9 to 1e12 and null below 1e9; every result that is not null is an
\* integer of at least 1e9.
C26_NumericRanges ==
    (apiPc = "parsed" /\ IsNumeric(apiCandidate)) =>
        /\ apiCandidate.t = "kilonum" /\ Above1e12(apiCandidate)
               => apiParsed = JNum(apiCandidate.v)
        /\ apiCandidate.t = "kilonum" /\ ~Above1e12(apiCandidate)
                                      /\ AtLeast1e9(apiCandidate)
               => apiParsed = apiCandidate
        /\ apiCandidate.t \in {"number", "fraction"} /\ AtLeast1e9(apiCandidate)
               => apiParsed = JNum(apiCandidate.v)
        /\ apiCandidate.t # "nan" /\ ~AtLeast1e9(apiCandidate)
               => apiParsed = JNull
        /\ apiParsed # JNull => IsEpochSeconds(apiParsed)

\* C27: the timestamp of a returned fix is the parsed payload timestamp
\* when that is not null, else the Date header in epoch seconds when the
\* header is present and a date, else the local clock; it is never null.
C27_FallbackOrder ==
    (apiPc = "returned" /\ apiFix.st = "fulfilled" /\ apiFix.value # JNull) =>
        LET ts       == apiFix.value.timestamp
            fromBody == parseTimestampCandidate(apiCandidate)
        IN  /\ ~IsNullish(ts)
            /\ fromBody # JNull => ts = fromBody
            /\ fromBody = JNull /\ apiHeader.t = "datestr" => ts = JNum(apiHeader.v)
            /\ fromBody = JNull /\ apiHeader.t # "datestr" => ts = JNum(apiClock)

\* C27 witness: the payload timestamp was too small to be one and the
\* header was a date: the fix carries the time of the header
C27_HeaderUsed ==
    /\ apiPc = "returned"
    /\ apiCandidate = JNum(42)
    /\ apiHeader.t = "datestr"
    /\ apiFix.st = "fulfilled"
    /\ apiFix.value.timestamp = JNum(apiHeader.v)

\* C29: on a string that denotes a number the result is that of the number
\* it denotes.
C29_NumericStringAsNumber ==
    (apiPc = "parsed" /\ apiCandidate.t \in {"numstr", "fracstr"}) =>
        apiParsed = parseTimestampCandidate(ToNumber(apiCandidate))

(***************************************************************************)
(* backend (SpecBackend): POST /ingest, GET /device/:id/latest and         *)
(* GET /device/:id/history on the two in-memory stores.  The stores are    *)
(* plain objects: a key that was never assigned reads as undefined, except *)
(* a key of Object.prototype, which reads as the inherited function.       *)
(***************************************************************************)
MaxPoints == 2

\* device ids of the requests; "constructor" is a key of Object.prototype
BackendIds == {"esp01", "esp02", "constructor"}

PrototypeKeys == {"constructor"}

\* Math.floor(Date.now() / 1000) of the server
BackendClocks == {1793000000}

\* req.body of POST /ingest
IngestBody(dev, lat, lon, ts) ==
    [t |-> "object", device_id |-> dev, lat |-> lat, lon |-> lon, timestamp |-> ts]

IngestBodies ==
    { IngestBody(JStr(id), JNum(lat), JNum(77), ts) :
          id \in BackendIds, lat \in {10, 20}, ts \in {JNum(1733847391), JUndefined} }
    \cup { IngestBody(JUndefined, JNum(10), JNum(77), JUndefined),
           IngestBody(JStr(""), JNum(10), JNum(77), JUndefined),
           IngestBody(JNum(7), JNum(10), JNum(77), JUndefined),
           IngestBody(JStr("esp01"), JNumStr(10), JNum(77), JUndefined),
           IngestBody(JStr("esp01"), JNum(10), JUndefined, JUndefined),
           IngestBody(JStr("esp02"), JNaN, JNum(77), JUndefined) }

\* typeof x === 'number' && !isNaN(x)
IsNumberNotNaN(x) == x.t \in {"number", "kilonum", "fraction", "infinity"}

\* validateLocationPoint(body).valid
validateLocationPoint(body) ==
    /\ body.device_id.t = "string" /\ body.device_id.v # ""
    /\ IsNumberNotNaN(body.lat)
    /\ IsNumberNotNaN(body.lon)

\* locationPoint (51-59)
locationPoint(body, now) ==
    [t |-> "object", device_id |-> body.device_id, lat |-> body.lat, lon |-> body.lon,
     speed |-> JNull, battery |-> JNull, sos |-> FALSE,
     timestamp |-> IF body.timestamp.t = "number" /\ body.timestamp.v # 0
                   THEN body.timestamp ELSE JNum(now)]

\* store[id] of a plain object
Lookup(store, id) ==
    IF store[id] # NoEntry THEN store[id]
    ELSE IF id \in PrototypeKeys THEN Inherited
    ELSE NoEntry

Reply(status, body) == [status |-> status, body |-> body]

ErrorBody(message) == [t |-> "object", error |-> message]

\* the handler of GET /device/:id/latest (78-92)
latestHandler(id) ==
    LET latest == Lookup(latestByDevice, id)
    IN  IF latest = NoEntry THEN Reply(404, ErrorBody("No data"))
        ELSE Reply(200, latest)

\* the handler of GET /device/:id/history (95-105)
historyHandler(id) ==
    LET found  == Lookup(historyByDevice, id)
        points == IF found = NoEntry THEN JArr(<<>>) ELSE found
    IN  Reply(200, [t |-> "object", coordinates |-> points])

OnlyBackendChanges ==
    UNCHANGED <<cleanVars, sortEngine, appVars, fetchVars, markerVars, apiVars>>

\* the server has started: both stores are empty
InitBackend ==
    /\ InitApp
    /\ localStorage = [d \in DeviceIds |-> Absent]
    /\ IdleClean
    /\ sortEngine \in SortEngines
    /\ IdleFetch
    /\ IdleMarker
    /\ IdleApi
    /\ latestByDevice = [id \in BackendIds |-> NoEntry]
    /\ historyByDevice = [id \in BackendIds |-> NoEntry]
    /\ backendReply = NoReply
    /\ backendAccepted = {}

\* POST /ingest (32-75): 400 for an invalid body; else the point is stored
\* as latest (62) and pushed to the history (65-68); what push throws is
\* caught and answered with 500 (71-74)
PostIngest ==
    \E body \in IngestBodies : \E now \in BackendClocks :
        IF ~validateLocationPoint(body)
        THEN /\ backendReply' = Reply(400, ErrorBody("invalid"))
             /\ UNCHANGED <<latestByDevice, historyByDevice, backendAccepted>>
             /\ OnlyBackendChanges
        ELSE LET id    == body.device_id.v
                 point == locationPoint(body, now)
                 found == Lookup(historyByDevice, id)
             IN  /\ found.t = "array" => Len(found.items) < MaxPoints
                 /\ latestByDevice' = [latestByDevice EXCEPT ![id] = point]
                 /\ IF found = NoEntry
                    THEN /\ historyByDevice' =
                                [historyByDevice EXCEPT ![id] = JArr(<<point>>)]
                         /\ backendReply' = Reply(200, [t |-> "object", status |-> "ok"])
                         /\ backendAccepted' = backendAccepted \cup {id}
                    ELSE IF found.t = "array"
                    THEN /\ historyByDevice' =
                                [historyByDevice EXCEPT
                                     ![id] = JArr(Append(found.items, point))]
                         /\ backendReply' = Reply(200, [t |-> "object", status |-> "ok"])
                         /\ backendAccepted' = backendAccepted \cup {id}
                    ELSE \* found.push is not a function
                         /\ backendReply' = Reply(500, ErrorBody("Internal server error"))
                         /\ UNCHANGED <<historyByDevice, backendAccepted>>
                 /\ OnlyBackendChanges

\* GET /device/:id/latest
GetLatest ==
    \E id \in BackendIds :
        /\ backendReply' = latestHandler(id)
        /\ UNCHANGED <<latestByDevice, historyByDevice, backendAccepted>>
        /\ OnlyBackendChanges

\* GET /device/:id/history
GetHistory ==
    \E id \in BackendIds :
        /\ backendReply' = historyHandler(id)
        /\ UNCHANGED <<latestByDevice, historyByDevice, backendAccepted>>
        /\ OnlyBackendChanges

NextBackend == PostIngest \/ GetLatest \/ GetHistory

SpecBackend == InitBackend /\ [][NextBackend]_vars

(***************************************************************************)
(* Claims about the backend (checked under SpecBackend)                    *)
(***************************************************************************)
\* the coordinates GET /device/:id/history answers with, [] if no array
Coordinates(id) ==
    LET c == historyHandler(id).body.coordinates
    IN  IF c.t = "array" THEN c.items ELSE <<>>

\* C30: for every device id the latest store has an entry exactly when the
\* history of the device is not empty; GET latest then answers with the
\* last element of the history, and a device without an accepted ingest
\* gets 404 on latest and an empty coordinates array on history.
C30_LatestIsLastOfHistory ==
    \A id \in BackendIds :
        /\ historyHandler(id).body.coordinates.t = "array"
        /\ latestByDevice[id] # NoEntry <=> Coordinates(id) # <<>>
        /\ Coordinates(id) # <<>> =>
               latestHandler(id) = Reply(200, Coordinates(id)[Len(Coordinates(id))])
        /\ id \notin backendAccepted =>
               /\ latestHandler(id).status = 404
               /\ Coordinates(id) = <<>>


====
